---- MODULE Spec2Model ----
(***************************************************************************)
(* Model of the Product Hunt daily mailer: the driver (src/main.py) that   *)
(* loads the configuration, fetches the listing page (src/scraper.py),     *)
(* asks the language model for summaries (src/summarizer.py) and sends one *)
(* message per recipient (src/mailer.py).                                  *)
(*                                                                         *)
(* Python values are modelled as follows.  A dict is a function whose      *)
(* DOMAIN is its key set; None is the string NoneStr; an optional value    *)
(* (Product | None, the exit code of a run that has not ended) is a        *)
(* sequence of length 0 or 1; a call that may raise returns a record with  *)
(* a "raised" field.  Requests to the three external services are recorded *)
(* in the history variable calls, in the order they are issued.            *)
(***************************************************************************)
EXTENDS Integers, Sequences, FiniteSets, TLC

\* ---------------------------------------------------------------- bounds
MaxSections == 3        \* listing sections on a page
MaxLimit == 3           \* settings.product_count
MaxRecipients == 2      \* entries of the recipients list of config.yaml
MaxResp == 3            \* entries of the "products" array of a model response
MaxDriverSections == 2  \* sections of the pages served to a whole run

\* ------------------------------------------------------- Python helpers
NoneStr == "<None>"

\* d.get(k, default)
DictGet(d, k, default) == IF k \in DOMAIN d THEN d[k] ELSE default

\* bool(s) for a string or None
Truthy(s) == s # NoneStr /\ s # ""

EmptyDict == <<>>

SeqsUpTo(S, n) == UNION {[1..k -> S] : k \in 0..n}

Min(a, b) == IF a < b THEN a ELSE b

\* seq[:limit] for limit >= 0
Prefix(seq, limit) == SubSeq(seq, 1, Min(limit, Len(seq)))

\* ------------------------------------------------------------- scraper
NameTable == <<"n1", "n2", "n3", "n4", "n5">>
TaglineTable == <<"t1", "t2", "t3", "t4", "t5">>
\* base_url + href of the name link
UrlTable == <<"https://www.producthunt.com/posts/1",
              "https://www.producthunt.com/posts/2",
              "https://www.producthunt.com/posts/3",
              "https://www.producthunt.com/posts/4",
              "https://www.producthunt.com/posts/5">>

\* a <section data-test="post-item-n">: "ok" has the post-name span and its
\* link, "noname" lacks the span, "nolink" lacks the <a> inside the span,
\* "raises" makes the extraction code throw
SectionKinds == {"ok", "noname", "nolink", "raises"}

Section(kind, n) == [kind |-> kind, n |-> n]

\* the pages: k sections matching ^post-item-\d+$, numbered in document order
PagesOf(kinds, maxLen) ==
    UNION {{[i \in 1..k |-> Section(f[i], i)] : f \in [1..k -> kinds]} :
              k \in 0..maxLen}

Pages == PagesOf(SectionKinds, MaxSections)

Product(n) ==
    [name |-> NameTable[n], tagline |-> TaglineTable[n], url |-> UrlTable[n]]

\* variant without the try/except: the exception leaves the function
_parse_product_section_unguarded(section) ==
    IF section.kind = "ok"
    THEN [raised |-> FALSE, value |-> <<Product(section.n)>>]
    ELSE [raised |-> section.kind = "raises", value |-> <<>>]

\* Product | None as a sequence; the try/except turns any exception into None
_parse_product_section(section) ==
    IF section.kind = "ok"
    THEN [raised |-> FALSE, value |-> <<Product(section.n)>>]
    ELSE [raised |-> FALSE, value |-> <<>>]

RECURSIVE CollectProducts(_, _)
\* the for loop of parse_products over sections; acc is the products list
CollectProducts(sections, acc) ==
    IF sections = <<>> THEN [raised |-> FALSE, value |-> acc]
    ELSE LET r == _parse_product_section(Head(sections))
         IN  IF r.raised THEN [raised |-> TRUE, value |-> <<>>]
             ELSE CollectProducts(Tail(sections), acc \o r.value)

\* variant that iterates product_sections instead of product_sections[:limit]
parse_products_unsliced(html, limit) == CollectProducts(html, <<>>)

parse_products(html, limit) == CollectProducts(Prefix(html, limit), <<>>)

\* fetch_homepage + parse_products; page.ok = FALSE is a network error or a
\* non-2xx status (raise_for_status)
get_top_products(page, limit) ==
    IF ~page.ok THEN [raised |-> TRUE, value |-> <<>>]
    ELSE parse_products(page.html, limit)

fetch_products(page, limit) == get_top_products(page, limit)

\* ---------------------------------------------------------- summarizer
FallbackIntro == "Here are today's top Product Hunt launches!"
FallbackWhy == "Check it out on Product Hunt!"
EmptyIntro == "No products found today."

ProductSummary(product, summary, why_it_matters) ==
    [name |-> product.name, original_tagline |-> product.tagline,
     summary |-> summary, why_it_matters |-> why_it_matters,
     url |-> product.url]

DigestContent(intro, products) == [intro |-> intro, products |-> products]

\* variant that leaves the summary empty instead of reusing the tagline
_create_fallback_digest_blank(products) ==
    DigestContent(FallbackIntro,
        [i \in 1..Len(products) |->
            ProductSummary(products[i], "", FallbackWhy)])

_create_fallback_digest(products) ==
    DigestContent(FallbackIntro,
        [i \in 1..Len(products) |->
            ProductSummary(products[i], products[i].tagline, FallbackWhy)])

\* json.loads: a text that is not valid JSON raises JSONDecodeError, a valid
\* one yields the value it denotes
json_loads(text) ==
    IF text.json THEN [raised |-> FALSE, value |-> text.value]
    ELSE [raised |-> TRUE, value |-> [type |-> "none"]]

\* .get on a parsed JSON value exists for objects only
HasGet(v) == v.type = "object"

\* variant whose bound test is off by one (i < len(...) - 1)
summary_data_off_by_one(result, i) ==
    LET rp == DictGet(result.d, "products", <<>>)
    IN  IF i < Len(rp) THEN rp[i] ELSE [type |-> "object", d |-> EmptyDict]

\* result.get("products", [])[i] if i < len(result.get("products", [])) else {}
summary_data(result, i) ==
    LET rp == DictGet(result.d, "products", <<>>)
    IN  IF i <= Len(rp) THEN rp[i] ELSE [type |-> "object", d |-> EmptyDict]

\* lines 117-136: the positional mapping; AttributeError when the parsed
\* value, or an entry that is used, has no .get
build_digest(products, result) ==
    IF ~HasGet(result) THEN [raised |-> TRUE, value |-> <<>>]
    ELSE IF \E i \in 1..Len(products) : ~HasGet(summary_data(result, i))
    THEN [raised |-> TRUE, value |-> <<>>]
    ELSE [raised |-> FALSE,
          value |-> <<DigestContent(
              DictGet(result.d, "intro", FallbackIntro),
              [i \in 1..Len(products) |->
                  ProductSummary(products[i],
                      DictGet(summary_data(result, i).d, "summary",
                              products[i].tagline),
                      DictGet(summary_data(result, i).d, "why_it_matters",
                              ""))])>>]

\* variant without the "if not products" early return: the model is asked
\* about an empty list as well
GeminiSummarizer_summarize_products_always_asks(products, gen) ==
    IF gen.raises
    THEN [raised |-> TRUE, requests |-> 1, value |-> <<>>]
    ELSE LET parsed == json_loads(gen.text)
         IN  IF parsed.raised
             THEN [raised |-> FALSE, requests |-> 1,
                   value |-> <<_create_fallback_digest(products)>>]
             ELSE [requests |-> 1] @@ build_digest(products, parsed.value)

\* what the method does with the outcome of self.model.generate_content:
\* requests is the number of requests issued to the model endpoint
GeminiSummarizer_summarize_products(products, gen) ==
    IF products = <<>>
    THEN [raised |-> FALSE, requests |-> 0,
          value |-> <<DigestContent(EmptyIntro, <<>>)>>]
    ELSE IF gen.raises
    THEN [raised |-> TRUE, requests |-> 1, value |-> <<>>]
    ELSE LET parsed == json_loads(gen.text)
         IN  IF parsed.raised
             THEN [raised |-> FALSE, requests |-> 1,
                   value |-> <<_create_fallback_digest(products)>>]
             ELSE [requests |-> 1] @@ build_digest(products, parsed.value)

\* variant that tests "is None" instead of truthiness
GeminiSummarizer_init_is_none(env_key) == [raised |-> env_key = NoneStr]

\* GeminiSummarizer.__init__: api_key or os.getenv("GEMINI_API_KEY")
GeminiSummarizer_init(env_key) == [raised |-> ~Truthy(env_key)]

\* module-level summarize_products: construct, then summarize
summarize_products(products, env_key, gen) ==
    IF GeminiSummarizer_init(env_key).raised
    THEN [raised |-> TRUE, requests |-> 0, value |-> <<>>]
    ELSE GeminiSummarizer_summarize_products(products, gen)

\* -------------------------------------------------------------- mailer
Recipient(name, email) == [name |-> name, email |-> email]

\* EmailSender.__init__: api_key or os.getenv("RESEND_API_KEY")
EmailSender_init(env_key) == [raised |-> ~Truthy(env_key)]

\* one iteration of the loop of send_digest: the try body appends a "sent"
\* result when resend.Emails.send returns, the except clause a "failed" one
send_one(recipient, outcome) ==
    IF outcome.raises
    THEN [recipient |-> recipient.email, status |-> "failed",
          error |-> outcome.error]
    ELSE [recipient |-> recipient.email, status |-> "sent",
          id |-> outcome.id]

\* variant in which an exception from the delivery call ends the loop
loop_continues_until_failure(res, rcpts) ==
    /\ Len(res) < Len(rcpts)
    /\ \A i \in 1..Len(res) : res[i].status # "failed"

\* for recipient in recipients: another iteration follows
loop_continues(res, rcpts) == Len(res) < Len(rcpts)

\* -------------------------------------------------------------- driver
\* recipients_config entries: dicts, or a scalar that has no .get
IsDict(r) == "scalar" \notin DOMAIN r

\* lines 55-60: the list comprehension over recipients_config
RECURSIVE parse_recipients_key_present(_)
\* variant that tests "email" in r instead of r.get("email")
parse_recipients_key_present(cfg) ==
    IF cfg = <<>> THEN <<>>
    ELSE LET r == Head(cfg)
         IN  IF "email" \in DOMAIN r
             THEN <<Recipient(DictGet(r, "name", ""), DictGet(r, "email", ""))>>
                  \o parse_recipients_key_present(Tail(cfg))
             ELSE parse_recipients_key_present(Tail(cfg))

RECURSIVE parse_recipients(_)
parse_recipients(cfg) ==
    IF cfg = <<>> THEN <<>>
    ELSE LET r == Head(cfg)
         IN  IF Truthy(DictGet(r, "email", NoneStr))
             THEN <<Recipient(DictGet(r, "name", ""), DictGet(r, "email", ""))>>
                  \o parse_recipients(Tail(cfg))
             ELSE parse_recipients(Tail(cfg))

RECURSIVE CountSent(_)
\* sum(1 for r in results if r.get("status") == "sent")
CountSent(res) ==
    IF res = <<>> THEN 0
    ELSE (IF DictGet(Head(res), "status", NoneStr) = "sent" THEN 1 ELSE 0)
         + CountSent(Tail(res))

\* variant that succeeds as soon as one message was sent
exit_status_any_sent(res) == IF CountSent(res) > 0 THEN 0 ELSE 1

\* lines 115-120: return 0 if failed == 0 else 1
exit_status(res) == IF Len(res) - CountSent(res) = 0 THEN 0 ELSE 1

\* variant without the "if not products" early return
after_fetch_no_empty_check(r) == IF r.raised THEN "abort" ELSE "continue"

\* lines 73-81: what main does with the outcome of fetch_products
after_fetch(r) ==
    IF r.raised THEN "abort"
    ELSE IF r.value = <<>> THEN "empty"
    ELSE "continue"

\* ------------------------------------------------------- input domains
KeyValues == {NoneStr, "", "key"}

ConfigEntries ==
    {[name |-> "Ann", email |-> "a@x"], [name |-> "Bob", email |-> "b@x"],
     [name |-> "Cy", email |-> ""], [name |-> "Dee"], [scalar |-> "oops"]}

RespEntries ==
    {[type |-> "object",
      d |-> [name |-> "n1", summary |-> "s1", why_it_matters |-> "w1"]],
     [type |-> "object",
      d |-> [name |-> "other", summary |-> "s2", why_it_matters |-> "w2"]],
     [type |-> "object", d |-> [name |-> "n1"]],
     [type |-> "string"]}

RespDicts ==
    {[products |-> ps, intro |-> "hello"] : ps \in SeqsUpTo(RespEntries, MaxResp)}
    \cup {[products |-> ps] : ps \in SeqsUpTo(RespEntries, MaxResp)}
    \cup {[intro |-> "hello"], EmptyDict}

\* outcomes of self.model.generate_content(prompt) followed by response.text
GenOutcomes ==
    {[raises |-> TRUE]}
    \cup {[raises |-> FALSE, text |-> [json |-> FALSE]]}
    \cup {[raises |-> FALSE, text |-> [json |-> TRUE, value |-> [type |-> "array"]]]}
    \cup {[raises |-> FALSE,
           text |-> [json |-> TRUE, value |-> [type |-> "object", d |-> d]]] :
              d \in RespDicts}

\* outcomes of requests.get + raise_for_status
PageOutcomesOf(pages) ==
    {[ok |-> FALSE]} \cup {[ok |-> TRUE, html |-> p] : p \in pages}

PageOutcomes == PageOutcomesOf(Pages)

\* the outcomes a whole run is checked against: short pages whose sections
\* are well-formed or throwing, and one response of each shape
DriverPageOutcomes ==
    PageOutcomesOf(PagesOf({"ok", "raises"}, MaxDriverSections))

DriverGenOutcomes ==
    {[raises |-> TRUE],
     [raises |-> FALSE, text |-> [json |-> FALSE]],
     [raises |-> FALSE, text |-> [json |-> TRUE, value |-> [type |-> "array"]]],
     [raises |-> FALSE,
      text |-> [json |-> TRUE,
                value |-> [type |-> "object", d |-> EmptyDict]]],
     [raises |-> FALSE,
      text |-> [json |-> TRUE,
                value |-> [type |-> "object",
                           d |-> [products |->
                                     <<[type |-> "object",
                                        d |-> [name |-> "other",
                                               summary |-> "s2",
                                               why_it_matters |-> "w2"]]>>,
                                  intro |-> "hello"]]]]}

\* outcomes of resend.Emails.send
SendOutcomes == {[raises |-> FALSE, id |-> "id-1"], [raises |-> TRUE, error |-> "boom"]}

\* --------------------------------------------------------------- state
VARIABLES
    pc,                 \* position of main
    gemini_key,         \* os.getenv("GEMINI_API_KEY")
    resend_key,         \* os.getenv("RESEND_API_KEY")
    recipients_config,  \* config["recipients"]
    product_count,      \* settings["product_count"]
    recipients,         \* main: recipients
    page,               \* the response to the page fetch, once made
    products,           \* main: products
    gen,                \* the outcome of the model request, once made
    digest,             \* main: digest (0 or 1 element)
    deliveries,         \* the outcomes of the delivery calls made so far
    results,            \* send_digest: results
    exitCode,           \* the process exit code (0 or 1 element)
    uncaught,           \* an exception left main
    calls               \* requests issued to external services, in order

vars == <<pc, gemini_key, resend_key, recipients_config, product_count,
          recipients, page, products, gen, digest, deliveries, results,
          exitCode, uncaught, calls>>

Call(api, to) == [api |-> api, to |-> to]

Init ==
    /\ pc = "load"
    /\ gemini_key = NoneStr
    /\ resend_key = NoneStr
    /\ recipients_config = <<>>
    /\ product_count = 0
    /\ recipients = <<>>
    /\ page = <<>>
    /\ products = <<>>
    /\ gen = <<>>
    /\ digest = <<>>
    /\ deliveries = <<>>
    /\ results = <<>>
    /\ exitCode = <<>>
    /\ uncaught = FALSE
    /\ calls = <<>>

\* return code from main, or an exception propagating to the interpreter
Exit(code) == pc' = "done" /\ exitCode' = <<code>>

\* main lines 33-69: load_dotenv, load_config, settings, recipients
LoadConfig ==
    /\ pc = "load"
    /\ \E exists \in BOOLEAN, gk \in KeyValues, rk \in KeyValues,
          rc \in SeqsUpTo(ConfigEntries, MaxRecipients), pcount \in 0..MaxLimit :
        /\ gemini_key' = gk
        /\ resend_key' = rk
        /\ IF ~exists
           THEN /\ Exit(1)
                /\ uncaught' = FALSE
                /\ UNCHANGED <<recipients_config, product_count, recipients>>
           ELSE /\ recipients_config' = rc
                /\ product_count' = pcount
                /\ IF \E i \in 1..Len(rc) : ~IsDict(rc[i])
                   THEN /\ Exit(1)
                        /\ uncaught' = TRUE
                        /\ UNCHANGED recipients
                   ELSE /\ recipients' = parse_recipients(rc)
                        /\ uncaught' = FALSE
                        /\ IF recipients' = <<>>
                           THEN Exit(1)
                           ELSE pc' = "fetch" /\ UNCHANGED exitCode
    /\ UNCHANGED <<page, products, gen, digest, deliveries, results, calls>>

\* main lines 71-86: step 1, the page request answered by one of outcomes
FetchFrom(outcomes) ==
    /\ pc = "fetch"
    /\ \E pg \in outcomes :
        LET r == fetch_products(pg, product_count)
        IN  /\ page' = <<pg>>
            /\ calls' = Append(calls, Call("page", ""))
            /\ products' = r.value
            /\ CASE after_fetch(r) = "abort" -> Exit(1)
                 [] after_fetch(r) = "empty" -> Exit(0)
                 [] OTHER -> pc' = "summarize" /\ UNCHANGED exitCode
    /\ UNCHANGED <<gemini_key, resend_key, recipients_config, product_count,
                   recipients, gen, digest, deliveries, results, uncaught>>

\* main lines 88-97: step 2, the model request answered by one of outcomes
SummarizeFrom(outcomes) ==
    /\ pc = "summarize"
    /\ \E g \in outcomes :
        LET r == summarize_products(products, gemini_key, g)
        IN  /\ gen' = IF r.requests = 1 THEN <<g>> ELSE <<>>
            /\ calls' = IF r.requests = 1
                        THEN Append(calls, Call("model", ""))
                        ELSE calls
            /\ IF r.raised
               THEN Exit(1) /\ UNCHANGED digest
               ELSE /\ digest' = r.value
                    /\ pc' = "mail"
                    /\ UNCHANGED exitCode
    /\ UNCHANGED <<gemini_key, resend_key, recipients_config, product_count,
                   recipients, page, products, deliveries, results, uncaught>>

FetchProducts == FetchFrom(DriverPageOutcomes)

Summarize == SummarizeFrom(DriverGenOutcomes)

\* main lines 99-110 up to the loop: EmailSender(), subject, rendering
StartSending ==
    /\ pc = "mail"
    /\ IF EmailSender_init(resend_key).raised
       THEN Exit(1)
       ELSE pc' = "send" /\ UNCHANGED exitCode
    /\ UNCHANGED <<gemini_key, resend_key, recipients_config, product_count,
                   recipients, page, products, gen, digest, deliveries,
                   results, uncaught, calls>>

\* one iteration of the loop of send_digest
SendNext ==
    /\ pc = "send"
    /\ loop_continues(results, recipients)
    /\ \E outcome \in SendOutcomes :
        LET recipient == recipients[Len(results) + 1]
        IN  /\ calls' = Append(calls, Call("email", recipient.email))
            /\ deliveries' = Append(deliveries, outcome)
            /\ results' = Append(results, send_one(recipient, outcome))
    /\ UNCHANGED <<pc, gemini_key, resend_key, recipients_config,
                   product_count, recipients, page, products, gen, digest,
                   exitCode, uncaught>>

\* the loop ends, send_digest returns; main lines 112-120
Finish ==
    /\ pc = "send"
    /\ ~loop_continues(results, recipients)
    /\ Exit(exit_status(results))
    /\ UNCHANGED <<gemini_key, resend_key, recipients_config, product_count,
                   recipients, page, products, gen, digest, deliveries,
                   results, uncaught, calls>>

Next ==
    \/ LoadConfig
    \/ FetchProducts
    \/ Summarize
    \/ StartSending
    \/ SendNext
    \/ Finish

Spec == Init /\ [][Next]_vars

\* ---- the fetcher alone: a run that is about to fetch, any page, any limit
InitFetch ==
    /\ pc = "fetch"
    /\ gemini_key = "key"
    /\ resend_key = "key"
    /\ recipients_config = <<[name |-> "Ann", email |-> "a@x"]>>
    /\ product_count \in 0..MaxLimit
    /\ recipients = parse_recipients(recipients_config)
    /\ page = <<>>
    /\ products = <<>>
    /\ gen = <<>>
    /\ digest = <<>>
    /\ deliveries = <<>>
    /\ results = <<>>
    /\ exitCode = <<>>
    /\ uncaught = FALSE
    /\ calls = <<>>

FetchAnyPage == FetchFrom(PageOutcomes)

NextFetch == FetchAnyPage

SpecFetch == InitFetch /\ [][NextFetch]_vars

\* ---- the summarizer alone: a run that fetched n well-formed sections and
\* is about to summarize, any outcome of the model request
InitSummarize ==
    /\ pc = "summarize"
    /\ gemini_key = "key"
    /\ resend_key = "key"
    /\ recipients_config = <<[name |-> "Ann", email |-> "a@x"]>>
    /\ recipients = parse_recipients(recipients_config)
    /\ product_count \in 1..MaxSections
    /\ \E html \in PagesOf({"ok"}, MaxSections) :
        /\ Len(html) = product_count
        /\ page = <<[ok |-> TRUE, html |-> html]>>
        /\ products = fetch_products(page[1], product_count).value
    /\ gen = <<>>
    /\ digest = <<>>
    /\ deliveries = <<>>
    /\ results = <<>>
    /\ exitCode = <<>>
    /\ uncaught = FALSE
    /\ calls = <<Call("page", "")>>

SummarizeAnyResponse == SummarizeFrom(GenOutcomes)

NextSummarize == SummarizeAnyResponse

SpecSummarize == InitSummarize /\ [][NextSummarize]_vars

\* ---- summarize_products called on its own, outside main: any product list
\* (the empty one included), any outcome of the model request
InitSummarizerCall ==
    /\ pc = "call"
    /\ gemini_key = "key"
    /\ resend_key = NoneStr
    /\ recipients_config = <<>>
    /\ product_count = 0
    /\ recipients = <<>>
    /\ page = <<>>
    /\ products \in {[i \in 1..n |-> Product(i)] : n \in 0..MaxSections}
    /\ gen = <<>>
    /\ digest = <<>>
    /\ deliveries = <<>>
    /\ results = <<>>
    /\ exitCode = <<>>
    /\ uncaught = FALSE
    /\ calls = <<>>

\* summarizer.py lines 159-166: the call returns a digest or raises
CallSummarizer ==
    /\ pc = "call"
    /\ \E g \in GenOutcomes :
        LET r == summarize_products(products, gemini_key, g)
        IN  /\ gen' = IF r.requests = 1 THEN <<g>> ELSE <<>>
            /\ calls' = IF r.requests = 1
                        THEN Append(calls, Call("model", ""))
                        ELSE calls
            /\ digest' = r.value
            /\ uncaught' = r.raised
            /\ pc' = "returned"
    /\ UNCHANGED <<gemini_key, resend_key, recipients_config, product_count,
                   recipients, page, products, deliveries, results, exitCode>>

NextSummarizerCall == CallSummarizer

SpecSummarizerCall == InitSummarizerCall /\ [][NextSummarizerCall]_vars

TypeOK ==
    /\ pc \in {"load", "fetch", "summarize", "mail", "send", "done", "call",
              "returned"}
    /\ Len(exitCode) <= 1
    /\ Len(results) <= Len(recipients)

\* ------------------------------------------------ derived observations
CallsTo(api) == SelectSeq(calls, LAMBDA c : c.api = api)

IsSent(r) == r.status = "sent"
IsFailed(r) == r.status = "failed"

\* the page request was answered and the listing was parsed
PageParsed == page # <<>> /\ page[1].ok

\* the page request itself failed
FetchFailed == page # <<>> /\ ~page[1].ok

\* the sections parse_products looks at: the first min(limit, k)
Considered == IF PageParsed THEN Prefix(page[1].html, product_count) ELSE <<>>

\* the model request was made and returned a body
GenReturned == gen # <<>> /\ ~gen[1].raises

\* ------------------------------------------------------------- claims

\* a stage before the send loop ended the run
StageAborted ==
    \/ recipients = <<>>
    \/ FetchFailed
    \/ products # <<>> /\ digest = <<>>
    \/ digest # <<>> /\ ~Truthy(resend_key)

\* C1: a run ends with exit code 0 only if no stage aborted and every
\* recipient has a result recorded as "sent" (or the fetch was empty); it
\* ends with 1 whenever a result is "failed" or a stage aborted; with two
\* recipients and exactly one throwing delivery call the results are one
\* "sent" and one "failed" and the exit code is 1.
C1_ExitCodeContract ==
    pc = "done" =>
        /\ exitCode = <<0>> =>
            /\ \A i \in 1..Len(results) : IsSent(results[i])
            /\ ~StageAborted
            /\ products # <<>> => Len(results) = Len(recipients)
        /\ (\E i \in 1..Len(results) : IsFailed(results[i])) => exitCode = <<1>>
        /\ StageAborted => exitCode = <<1>>
        /\ (/\ Len(deliveries) = 2
            /\ Len(recipients) = 2
            /\ deliveries[1].raises # deliveries[2].raises)
           => /\ Cardinality({i \in 1..2 : IsSent(results[i])}) = 1
              /\ Cardinality({i \in 1..2 : IsFailed(results[i])}) = 1
              /\ exitCode = <<1>>

C1_Witness ==
    /\ pc = "done"
    /\ Len(results) = 2
    /\ IsSent(results[1])
    /\ IsFailed(results[2])
    /\ exitCode = <<1>>

\* C2: send_digest issues one delivery call per recipient and records one
\* result per recipient, in recipient order; result i names recipient i and
\* is "sent" if delivery call i returned, "failed" with the error message if
\* it raised; the loop ends only after the last recipient.
C2_OneResultPerRecipient ==
    /\ Len(results) = Len(deliveries)
    /\ Len(CallsTo("email")) = Len(results)
    /\ Len(results) <= Len(recipients)
    /\ \A i \in 1..Len(results) :
        /\ CallsTo("email")[i].to = recipients[i].email
        /\ results[i].recipient = recipients[i].email
        /\ ~deliveries[i].raises => IsSent(results[i])
        /\ deliveries[i].raises =>
               IsFailed(results[i]) /\ results[i].error = deliveries[i].error
    /\ (pc = "done" /\ digest # <<>> /\ Truthy(resend_key))
           => Len(results) = Len(recipients)

C2_Witness ==
    /\ pc = "done"
    /\ Len(recipients) = 2
    /\ Len(results) = 2
    /\ deliveries[1].raises
    /\ IsFailed(results[1])
    /\ results[2] = [recipient |-> recipients[2].email, status |-> "sent",
                     id |-> deliveries[2].id]

\* the "products" array of the parsed response, when the response is a JSON
\* object
RespProducts ==
    IF GenReturned /\ gen[1].text.json /\ gen[1].text.value.type = "object"
    THEN DictGet(gen[1].text.value.d, "products", <<>>)
    ELSE <<>>

\* C3: for n products and a parsed response with m entries the digest has n
\* summaries in input order; summary i carries name and tagline of product
\* i; for i <= m its summary and why_it_matters are those of response entry
\* i, whatever that entry's name (a field the entry lacks takes the default
\* of the absent entry); for i > m they are the tagline and "".
C3_PositionalMapping ==
    (/\ GenReturned
     /\ gen[1].text.json
     /\ gen[1].text.value.type = "object"
     /\ \A i \in 1..Min(Len(products), Len(RespProducts)) :
            RespProducts[i].type = "object")
    => /\ Len(digest) = 1
       /\ Len(digest[1].products) = Len(products)
       /\ \A i \in 1..Len(products) :
           LET ps == digest[1].products[i]
           IN  /\ ps.name = products[i].name
               /\ ps.original_tagline = products[i].tagline
               /\ ps.url = products[i].url
               /\ IF i <= Len(RespProducts) /\ "summary" \in DOMAIN RespProducts[i].d
                  THEN ps.summary = RespProducts[i].d.summary
                  ELSE ps.summary = products[i].tagline
               /\ IF i <= Len(RespProducts)
                     /\ "why_it_matters" \in DOMAIN RespProducts[i].d
                  THEN ps.why_it_matters = RespProducts[i].d.why_it_matters
                  ELSE ps.why_it_matters = ""

\* three products, two response entries, the first under another name
C3_Witness ==
    /\ Len(products) = 3
    /\ Len(RespProducts) = 2
    /\ RespProducts[1].type = "object"
    /\ DictGet(RespProducts[1].d, "name", NoneStr) # products[1].name
    /\ Len(digest) = 1
    /\ digest[1].products[1].summary = "s2"
    /\ digest[1].products[1].why_it_matters = "w2"
    /\ digest[1].products[2].summary = "s1"
    /\ digest[1].products[3].summary = products[3].tagline
    /\ digest[1].products[3].why_it_matters = ""

\* one product, three response entries: the surplus entries are ignored
C3_SurplusWitness ==
    /\ Len(products) = 1
    /\ Len(RespProducts) = 3
    /\ Len(digest) = 1
    /\ Len(digest[1].products) = 1
    /\ digest[1].products[1].summary = "s1"

\* C4: when the request to the model endpoint raises, the digest is the
\* fallback digest and the run goes on to the mail stage.
C4_RequestFailureFallsBack ==
    (gen # <<>> /\ gen[1].raises)
    => /\ digest = <<_create_fallback_digest(products)>>
       /\ pc \in {"mail", "send"} \/ CallsTo("email") # <<>>
              \/ (pc = "done" /\ ~Truthy(resend_key))

\* C5: a response body that is not valid JSON yields the fixed fallback
\* intro and one summary per product, in input order, each summary being
\* the product's tagline.
C5_UnparsableFallsBack ==
    (GenReturned /\ ~gen[1].text.json)
    => /\ Len(digest) = 1
       /\ digest[1].intro = "Here are today's top Product Hunt launches!"
       /\ Len(digest[1].products) = Len(products)
       /\ \A i \in 1..Len(products) :
           /\ digest[1].products[i].name = products[i].name
           /\ digest[1].products[i].original_tagline = products[i].tagline
           /\ digest[1].products[i].summary = products[i].tagline

C5_Witness ==
    /\ GenReturned
    /\ ~gen[1].text.json
    /\ Len(products) = 2
    /\ Len(digest) = 1
    /\ pc = "mail"

\* C6 as stated: the fetcher returns exactly min(limit, k) products.
C6_ExactlyMinLimitK ==
    PageParsed => Len(products) = Min(product_count, Len(page[1].html))

\* C6 amended: the fetcher returns the products of the well-formed sections
\* among the first min(limit, k) matching sections, in document order: at
\* most min(limit, k) products, and exactly that many when all of those
\* sections are well-formed.
C6_WellFormedAmongFirstMin ==
    PageParsed =>
        LET wf == SelectSeq(Considered, LAMBDA sec : sec.kind = "ok")
        IN  /\ Len(Considered) = Min(product_count, Len(page[1].html))
            /\ products = [i \in 1..Len(wf) |-> Product(wf[i].n)]
            /\ Len(products) <= Min(product_count, Len(page[1].html))
            /\ (\A i \in 1..Len(Considered) : Considered[i].kind = "ok")
                   => Len(products) = Min(product_count, Len(page[1].html))

\* three sections, limit 2, the first malformed: one product, the second
C6_Witness ==
    /\ PageParsed
    /\ Len(page[1].html) = 3
    /\ product_count = 2
    /\ page[1].html[1].kind = "noname"
    /\ page[1].html[2].kind = "ok"
    /\ page[1].html[3].kind = "ok"
    /\ products = <<Product(2)>>

\* position on the page of the section a product came from
SectionOf(product) == CHOOSE n \in 1..Len(NameTable) : NameTable[n] = product.name

\* C7: a malformed section (no name element, no link, or parsing raises)
\* yields no product and nothing is raised out of the fetcher; every
\* well-formed section among the first limit sections yields its product,
\* in document order.
C7_MalformedSectionsSkipped ==
    PageParsed =>
        /\ ~(pc = "done" /\ exitCode = <<1>> /\ gen = <<>> /\ products = <<>>)
        /\ pc = "done" /\ products = <<>> => exitCode = <<0>>
        /\ \A i \in 1..Len(Considered) :
            Considered[i].kind = "ok"
                <=> \E j \in 1..Len(products) : products[j] = Product(i)
        /\ \A j \in 1..Len(products) :
            SectionOf(products[j]) \in 1..Len(Considered)
        /\ \A j, l \in 1..Len(products) :
            j < l => SectionOf(products[j]) < SectionOf(products[l])

C7_Witness ==
    /\ PageParsed
    /\ Len(Considered) = 2
    /\ Considered[1].kind = "raises"
    /\ Considered[2].kind = "ok"
    /\ products = <<Product(2)>>
    /\ pc = "summarize"

\* C8: the stages run in strict sequence: a model request is made only
\* after the page request returned a non-empty product list, a delivery
\* call only after the summarizer returned a digest; a stage that raises
\* ends the run with exit code 1 and no later request; an empty fetch ends
\* the run with exit code 0 and neither a model request nor a delivery call.
C8_StrictSequence ==
    /\ \A i \in 1..Len(calls) :
        /\ calls[i].api = "page" => i = 1
        /\ calls[i].api = "model" =>
               i = 2 /\ calls[1].api = "page" /\ PageParsed /\ products # <<>>
        /\ calls[i].api = "email" =>
               /\ i >= 3
               /\ calls[1].api = "page"
               /\ calls[2].api = "model"
               /\ Len(digest) = 1
    /\ FetchFailed =>
           pc = "done" /\ exitCode = <<1>> /\ calls = <<Call("page", "")>>
    /\ (gen # <<>> /\ gen[1].raises) =>
           pc = "done" /\ exitCode = <<1>> /\ CallsTo("email") = <<>>
    /\ (pc \notin {"load", "fetch", "summarize"} /\ products # <<>> /\ digest = <<>>) =>
           pc = "done" /\ exitCode = <<1>> /\ CallsTo("email") = <<>>
    /\ (pc \notin {"load", "fetch", "summarize", "mail"} /\ digest # <<>>
            /\ ~Truthy(resend_key)) =>
           pc = "done" /\ exitCode = <<1>> /\ CallsTo("email") = <<>>
    /\ (PageParsed /\ products = <<>>) =>
           pc = "done" /\ exitCode = <<0>> /\ calls = <<Call("page", "")>>

\* a run that made all three kinds of request, in order
C8_Witness ==
    /\ pc = "done"
    /\ Len(calls) = 4
    /\ calls[1].api = "page"
    /\ calls[2].api = "model"
    /\ calls[3].api = "email"
    /\ calls[4].api = "email"

\* the empty-fetch exit of C8
C8_EmptyFetchWitness ==
    /\ pc = "done"
    /\ PageParsed
    /\ Len(page[1].html) = 2
    /\ products = <<>>
    /\ exitCode = <<0>>

\* every entry of the recipients list is a dict without a non-empty email
NoUsableRecipient ==
    \A i \in 1..Len(recipients_config) :
        /\ IsDict(recipients_config[i])
        /\ ~Truthy(DictGet(recipients_config[i], "email", NoneStr))

\* C9: when no configured recipient has a non-empty email the run ends with
\* exit code 1, without an exception and before any request is made; no
\* recipient with an empty email is ever handed to the mailer.
C9_NoRecipientsIsFatal ==
    /\ (pc # "load" /\ NoUsableRecipient) =>
           /\ pc = "done"
           /\ exitCode = <<1>>
           /\ ~uncaught
           /\ calls = <<>>
    /\ \A i \in 1..Len(recipients) : Truthy(recipients[i].email)
    /\ \A i \in 1..Len(calls) : calls[i].api = "email" => Truthy(calls[i].to)

\* a configuration whose two entries have an empty and a missing email
C9_Witness ==
    /\ pc = "done"
    /\ Len(recipients_config) = 2
    /\ DictGet(recipients_config[1], "email", NoneStr) = ""
    /\ "email" \notin DOMAIN recipients_config[2]
    /\ IsDict(recipients_config[2])
    /\ exitCode = <<1>>
    /\ calls = <<>>

\* C10 as stated: every run in which one of the two keys is absent ends
\* with exit code 1.
C10_AbsentKeyAlwaysExitsOne ==
    (pc = "done" /\ (~Truthy(gemini_key) \/ ~Truthy(resend_key)))
        => exitCode = <<1>>

\* C10 amended: a key is checked where its provider is first used.  A run
\* that reaches the summarizer (non-empty fetch) without the model key ends
\* there with exit code 1; a run that reaches the mailer (digest returned)
\* without the email key ends there with exit code 1; no request is ever
\* made to a provider whose key is absent.
C10_AbsentKeyFatalAtFirstUse ==
    /\ (~Truthy(gemini_key) /\ products # <<>> /\ pc \notin {"fetch", "summarize"}) =>
           /\ pc = "done"
           /\ exitCode = <<1>>
           /\ digest = <<>>
           /\ calls = <<Call("page", "")>>
    /\ (~Truthy(resend_key) /\ digest # <<>> /\ pc # "mail") =>
           /\ pc = "done"
           /\ exitCode = <<1>>
           /\ results = <<>>
    /\ ~Truthy(gemini_key) => CallsTo("model") = <<>>
    /\ ~Truthy(resend_key) => CallsTo("email") = <<>>

\* the model key is the empty string: the run ends at the summarizer
C10_Witness ==
    /\ pc = "done"
    /\ gemini_key = ""
    /\ products # <<>>
    /\ exitCode = <<1>>
    /\ calls = <<Call("page", "")>>

\* the email key is absent: the model was asked, nothing was sent
C10_EmailKeyWitness ==
    /\ pc = "done"
    /\ resend_key = NoneStr
    /\ Len(digest) = 1
    /\ CallsTo("model") # <<>>
    /\ exitCode = <<1>>

\* C11: a summarize call makes no request to the model endpoint when the
\* product list is empty, and then returns the intro "No products found
\* today." with an empty product list; it makes exactly one request when the
\* list is non-empty, also when the fallback digest is taken or the call
\* raises: the request is never repeated.
C11_OneModelRequestPerCall ==
    pc = "returned" =>
        /\ products = <<>> =>
            /\ CallsTo("model") = <<>>
            /\ ~uncaught
            /\ digest = <<[intro |-> "No products found today.",
                           products |-> <<>>]>>
        /\ products # <<>> =>
            /\ Len(CallsTo("model")) = 1
            /\ Len(gen) = 1
        /\ (GenReturned /\ ~gen[1].text.json) =>
            /\ digest = <<_create_fallback_digest(products)>>
            /\ Len(CallsTo("model")) = 1

\* the call on the empty list
C11_Witness ==
    /\ pc = "returned"
    /\ products = <<>>
    /\ calls = <<>>
    /\ Len(digest) = 1
    /\ digest[1].intro = "No products found today."

\* the fallback digest after a single request
C11_FallbackWitness ==
    /\ pc = "returned"
    /\ Len(products) = 2
    /\ GenReturned
    /\ ~gen[1].text.json
    /\ calls = <<Call("model", "")>>

\* C12: whatever text the model returns for a non-empty product list (not
\* JSON, an object with a missing or short "products" array, JSON whose top
\* level is not an object, entries that are not objects), the summarizer
\* returns a digest with one summary per product and does not raise, and the
\* run goes on to the mail stage.
C12_MalformedOutputRecovered ==
    (GenReturned /\ products # <<>>) =>
        /\ Len(digest) = 1
        /\ Len(digest[1].products) = Len(products)
        /\ pc = "mail"
        /\ exitCode = <<>>

====
